---------------------------- MODULE Spec2Model ----------------------------
(***************************************************************************)
(* CudaArray (platforms/cuda/src/CudaArray.cpp): a block of device memory  *)
(* bound to a CudaContext.  The state is the fields of each CudaArray      *)
(* object, the calling thread's stack of current contexts, and the         *)
(* validity flag of each context.  Every constructor, member function and  *)
(* the destructor is one action; the driver primitives it calls are        *)
(* recorded, in order, in `calls`, each with the context that is current   *)
(* at the moment it is issued.                                             *)
(***************************************************************************)
EXTENDS Integers, Sequences, FiniteSets, TLC

VARIABLES
    arr,        \* arr[a]: the fields of CudaArray object a
    ctxStack,   \* the calling thread's stack of current contexts, top first
    valid,      \* valid[c]: what c.getContextIsValid() returns
    freed,      \* freed[a]: object a has passed the handle it holds to cuMemFree already
    last,       \* the function that ran last: its object, arguments and outcome
    calls       \* the driver calls that function issued, in order

vars == <<arr, ctxStack, valid, freed, last, calls>>

---------------------------------------------------------------------------
(* Bounds of the model. *)

IntBits == 3
SizeBits == 5
MaxCount == 2
MaxElemSize == 2
MaxHandles == 2
MaxStack == 1

Arrays == {"A", "B"}
Contexts == {"ctx1", "ctx2"}
Names == {"posq", "force"}

Counts == 1..MaxCount
ElemSizes == 1..MaxElemSize
Handles == 1..MaxHandles

---------------------------------------------------------------------------
(* Machine arithmetic: int is IntBits wide and signed, size_t and          *)
(* CUdeviceptr are SizeBits wide and unsigned.                             *)

IntMin == -(2^(IntBits - 1))
IntMax == 2^(IntBits - 1) - 1
SizeMod == 2^SizeBits
SizeMax == SizeMod - 1

InInt(x) == x >= IntMin /\ x <= IntMax

\* conversion of an int to size_t (its value modulo 2^SizeBits)
ToSize(i) == i % SizeMod

\* two's complement wraparound of an int result
WrapInt(x) == ((x - IntMin) % (2^IntBits)) + IntMin

\* Signed overflow is undefined: the build either wraps the result to
\* IntBits ("wrap") or keeps the value of the wide register ("wide").
UBOutcomes == {"wrap", "wide"}
IntResult(x, ub) == IF InInt(x) THEN x ELSE IF ub = "wrap" THEN WrapInt(x) ELSE x

\* size*elementSize: the int is converted to size_t and the product wraps
MulSize(n, es) == (n * ToSize(es)) % SizeMod

\* the arguments of uploadSubArray the model tries
OffsetArgs == {-1, 0, 1}
ElementArgs == {1, MaxCount, IntMax}

---------------------------------------------------------------------------
(* Values. *)

NoContext == "none"
Indet == "indeterminate"      \* a name or context field never assigned
IndetNum == -1 - 2^IntBits    \* a size or elementSize field never assigned

\* no object in the slot
NoArray == [exists |-> FALSE, pointer |-> 0, size |-> IndetNum, elementSize |-> IndetNum,
            name |-> Indet, ownsMemory |-> FALSE, context |-> Indet]

\* CudaArray::CudaArray() : pointer(0), ownsMemory(false)
DefaultArray == [NoArray EXCEPT !.exists = TRUE]

\* the record of the function that ran last: h is the object's pointer when
\* it was called, guards the contexts a ContextSelector was built for
NoLast == [op |-> "none", a |-> "A", res |-> "ok", h |-> 0, guards |-> <<>>, n |-> 0,
           off |-> 0, cnt |-> 0, blocking |-> FALSE, d |-> "A", mismatch |-> FALSE,
           unwrapped |-> FALSE]

\* the misuse errors
Misuse == {"uninitialized", "already_initialized", "not_owner"}

\* the copy primitives that take a stream and return once the copy is
\* enqueued on it; the others return when the copy is done
AsyncPrimitives == {"cuMemcpyHtoDAsync", "cuMemcpyDtoHAsync", "cuMemcpyDtoDAsync"}

\* one driver call: the primitive, its device pointer argument(s), its byte
\* count, the context of the object that issues it, the context current
\* when it is issued, whether it succeeded, and the context whose current
\* stream it is given (context->getCurrentStream(), for the primitives that
\* take a stream)
Call(fn, ptr, src, bytes, own, cur, ok) ==
    [fn |-> fn, ptr |-> ptr, src |-> src, bytes |-> bytes, own |-> own, cur |-> cur,
     ok |-> ok, stream |-> IF fn \in AsyncPrimitives THEN own ELSE NoContext]

---------------------------------------------------------------------------
(* ContextSelector, the scoped guard: its constructor pushes the context   *)
(* as the current one, its destructor pops it.                             *)

Current(stack) == IF stack = <<>> THEN NoContext ELSE Head(stack)
ContextSelectorEnter(stack, c) == <<c>> \o stack
ContextSelectorExit(stack) == Tail(stack)

---------------------------------------------------------------------------
(* The member functions, as functions of the object and their arguments.   *)
(* Each yields the object afterwards, the context stack afterwards, the    *)
(* driver calls issued, the guards built and the outcome: "ok" or the      *)
(* exception thrown.                                                       *)

Outcome(self, stack, cs, gs, res) ==
    [self |-> self, stack |-> stack, calls |-> cs, guards |-> gs, res |-> res]

\* initialize without its test of pointer: a second call allocates again
initializeImplNoStateTest(self, stack, c, n, es, nm, ok, h) ==
    LET s1 == [self EXCEPT !.context = c, !.size = n, !.elementSize = es,
                           !.name = nm, !.ownsMemory = TRUE]
        g == ContextSelectorEnter(stack, s1.context)
        alloc == Call("cuMemAlloc", IF ok THEN h ELSE 0, 0, MulSize(n, es),
                      s1.context, Current(g), ok)
    IN IF ok
       THEN Outcome([s1 EXCEPT !.pointer = h], ContextSelectorExit(g), <<alloc>>,
                    <<s1.context>>, "ok")
       ELSE Outcome(s1, ContextSelectorExit(g), <<alloc>>, <<s1.context>>, "driver")

\* initialize with a guard that is not released when the allocation fails
initializeImplKeepsGuard(self, stack, c, n, es, nm, ok, h) ==
    IF self.pointer # 0
    THEN Outcome(self, stack, <<>>, <<>>, "already_initialized")
    ELSE LET s1 == [self EXCEPT !.context = c, !.size = n, !.elementSize = es,
                                !.name = nm, !.ownsMemory = TRUE]
             g == ContextSelectorEnter(stack, s1.context)
             alloc == Call("cuMemAlloc", IF ok THEN h ELSE 0, 0, MulSize(n, es),
                           s1.context, Current(g), ok)
         IN IF ok
            THEN Outcome([s1 EXCEPT !.pointer = h], ContextSelectorExit(g), <<alloc>>,
                         <<s1.context>>, "ok")
            ELSE Outcome(s1, g, <<alloc>>, <<s1.context>>, "driver")

\* initialize that assigns its arguments to the fields before it tests pointer
initializeImplAssignsFirst(self, stack, c, n, es, nm, ok, h) ==
    LET s1 == [self EXCEPT !.context = c, !.size = n, !.elementSize = es,
                           !.name = nm, !.ownsMemory = TRUE]
        g == ContextSelectorEnter(stack, s1.context)
        alloc == Call("cuMemAlloc", IF ok THEN h ELSE 0, 0, MulSize(n, es),
                      s1.context, Current(g), ok)
    IN IF self.pointer # 0
       THEN Outcome(s1, stack, <<>>, <<>>, "already_initialized")
       ELSE IF ok
       THEN Outcome([s1 EXCEPT !.pointer = h], ContextSelectorExit(g), <<alloc>>,
                    <<s1.context>>, "ok")
       ELSE Outcome(s1, ContextSelectorExit(g), <<alloc>>, <<s1.context>>, "driver")

\* CudaArray::initialize.  ok and h are what cuMemAlloc returns; a failing
\* cuMemAlloc leaves pointer as it was.
initializeImpl(self, stack, c, n, es, nm, ok, h) ==
    IF self.pointer # 0
    THEN Outcome(self, stack, <<>>, <<>>, "already_initialized")
    ELSE LET s1 == [self EXCEPT !.context = c, !.size = n, !.elementSize = es,
                                !.name = nm, !.ownsMemory = TRUE]
             g == ContextSelectorEnter(stack, s1.context)
             alloc == Call("cuMemAlloc", IF ok THEN h ELSE 0, 0, MulSize(n, es),
                           s1.context, Current(g), ok)
         IN IF ok
            THEN Outcome([s1 EXCEPT !.pointer = h], ContextSelectorExit(g), <<alloc>>,
                         <<s1.context>>, "ok")
            ELSE Outcome(s1, ContextSelectorExit(g), <<alloc>>, <<s1.context>>, "driver")

\* resize that leaves pointer set when it calls initialize
resizeImplKeepsPointer(self, stack, n, okFree, okAlloc, h) ==
    IF self.pointer = 0
    THEN Outcome(self, stack, <<>>, <<>>, "uninitialized")
    ELSE IF ~self.ownsMemory
    THEN Outcome(self, stack, <<>>, <<>>, "not_owner")
    ELSE LET g == ContextSelectorEnter(stack, self.context)
             free == Call("cuMemFree", self.pointer, 0, 0, self.context, Current(g), okFree)
         IN IF ~okFree
            THEN Outcome(self, ContextSelectorExit(g), <<free>>, <<self.context>>, "driver")
            ELSE LET r == initializeImpl(self, g, self.context, n,
                                         self.elementSize, self.name, okAlloc, h)
                 IN Outcome(r.self, ContextSelectorExit(r.stack), <<free>> \o r.calls,
                            <<self.context>> \o r.guards, r.res)

\* resize without its two tests of the object's state
resizeImplNoStateTests(self, stack, n, okFree, okAlloc, h) ==
    LET g == ContextSelectorEnter(stack, self.context)
        free == Call("cuMemFree", self.pointer, 0, 0, self.context, Current(g), okFree)
    IN IF ~okFree
       THEN Outcome(self, ContextSelectorExit(g), <<free>>, <<self.context>>, "driver")
       ELSE LET r == initializeImpl([self EXCEPT !.pointer = 0], g, self.context, n,
                                    self.elementSize, self.name, okAlloc, h)
            IN Outcome(r.self, ContextSelectorExit(r.stack), <<free>> \o r.calls,
                       <<self.context>> \o r.guards, r.res)

\* resize that clears pointer and allocates again without a free
resizeImplNoFree(self, stack, n, okFree, okAlloc, h) ==
    IF self.pointer = 0
    THEN Outcome(self, stack, <<>>, <<>>, "uninitialized")
    ELSE IF ~self.ownsMemory
    THEN Outcome(self, stack, <<>>, <<>>, "not_owner")
    ELSE LET g == ContextSelectorEnter(stack, self.context)
             r == initializeImpl([self EXCEPT !.pointer = 0], g, self.context, n,
                                 self.elementSize, self.name, okAlloc, h)
         IN Outcome(r.self, ContextSelectorExit(r.stack), r.calls,
                    <<self.context>> \o r.guards, r.res)

\* CudaArray::resize.  okFree is what cuMemFree returns; okAlloc and h are
\* what the nested initialize's cuMemAlloc returns.
resizeImpl(self, stack, n, okFree, okAlloc, h) ==
    IF self.pointer = 0
    THEN Outcome(self, stack, <<>>, <<>>, "uninitialized")
    ELSE IF ~self.ownsMemory
    THEN Outcome(self, stack, <<>>, <<>>, "not_owner")
    ELSE LET g == ContextSelectorEnter(stack, self.context)
             free == Call("cuMemFree", self.pointer, 0, 0, self.context, Current(g), okFree)
         IN IF ~okFree
            THEN Outcome(self, ContextSelectorExit(g), <<free>>, <<self.context>>, "driver")
            ELSE LET r == initializeImpl([self EXCEPT !.pointer = 0], g, self.context, n,
                                         self.elementSize, self.name, okAlloc, h)
                 IN Outcome(r.self, ContextSelectorExit(r.stack), <<free>> \o r.calls,
                            <<self.context>> \o r.guards, r.res)

\* the destructor without its test of the context's validity
destroyImplNoValidityTest(self, stack, isValid, okFree) ==
    IF self.pointer # 0 /\ self.ownsMemory
    THEN LET g == ContextSelectorEnter(stack, self.context)
             free == Call("cuMemFree", self.pointer, 0, 0, self.context, Current(g), okFree)
         IN Outcome(NoArray, ContextSelectorExit(g), <<free>>, <<self.context>>,
                    IF okFree THEN "ok" ELSE "driver")
    ELSE Outcome(NoArray, stack, <<>>, <<>>, "ok")

\* CudaArray::~CudaArray.  isValid is context->getContextIsValid(), read only
\* when pointer != 0 and ownsMemory; okFree is what cuMemFree returns.
destroyImpl(self, stack, isValid, okFree) ==
    IF self.pointer # 0 /\ self.ownsMemory /\ isValid
    THEN LET g == ContextSelectorEnter(stack, self.context)
             free == Call("cuMemFree", self.pointer, 0, 0, self.context, Current(g), okFree)
         IN Outcome(NoArray, ContextSelectorExit(g), <<free>>, <<self.context>>,
                    IF okFree THEN "ok" ELSE "driver")
    ELSE Outcome(NoArray, stack, <<>>, <<>>, "ok")

\* the range test with the sum compared as a signed int, so that a sum
\* beyond INT_MAX, wrapped to a negative value, passes
exceedsRangeSigned(self, off, cnt, ub) ==
    off < 0 \/ IntResult(off + cnt, ub) > self.size

\* offset < 0 || offset+elements > getSize(): the sum is an int, converted
\* to size_t for the comparison
exceedsRange(self, off, cnt, ub) ==
    off < 0 \/ ToSize(IntResult(off + cnt, ub)) > self.size

\* uploadSubArray that takes the stream primitive whatever blocking is
uploadSubArrayImplAlwaysAsync(self, stack, off, cnt, blocking, ok, ub) ==
    IF self.pointer = 0
    THEN Outcome(self, stack, <<>>, <<>>, "uninitialized")
    ELSE IF exceedsRange(self, off, cnt, ub)
    THEN Outcome(self, stack, <<>>, <<>>, "bounds")
    ELSE LET dst == (self.pointer + ToSize(IntResult(off * self.elementSize, ub))) % SizeMod
             bytes == ToSize(IntResult(cnt * self.elementSize, ub))
             copy == Call("cuMemcpyHtoDAsync", dst, 0, bytes, self.context,
                          Current(stack), ok)
         IN Outcome(self, stack, <<copy>>, <<>>, IF ok THEN "ok" ELSE "driver")

\* CudaArray::uploadSubArray.  ok is what the copy primitive returns.
uploadSubArrayImpl(self, stack, off, cnt, blocking, ok, ub) ==
    IF self.pointer = 0
    THEN Outcome(self, stack, <<>>, <<>>, "uninitialized")
    ELSE IF exceedsRange(self, off, cnt, ub)
    THEN Outcome(self, stack, <<>>, <<>>, "bounds")
    ELSE LET dst == (self.pointer + ToSize(IntResult(off * self.elementSize, ub))) % SizeMod
             bytes == ToSize(IntResult(cnt * self.elementSize, ub))
             copy == Call(IF blocking THEN "cuMemcpyHtoD" ELSE "cuMemcpyHtoDAsync",
                          dst, 0, bytes, self.context, Current(stack), ok)
         IN Outcome(self, stack, <<copy>>, <<>>, IF ok THEN "ok" ELSE "driver")

\* download without its test of pointer
downloadImplNoStateTest(self, stack, blocking, ok) ==
    LET copy == Call(IF blocking THEN "cuMemcpyDtoH" ELSE "cuMemcpyDtoHAsync",
                     0, self.pointer, MulSize(self.size, self.elementSize),
                     self.context, Current(stack), ok)
    IN Outcome(self, stack, <<copy>>, <<>>, IF ok THEN "ok" ELSE "driver")

\* CudaArray::download.  ok is what the copy primitive returns.
downloadImpl(self, stack, blocking, ok) ==
    IF self.pointer = 0
    THEN Outcome(self, stack, <<>>, <<>>, "uninitialized")
    ELSE LET copy == Call(IF blocking THEN "cuMemcpyDtoH" ELSE "cuMemcpyDtoHAsync",
                          0, self.pointer, MulSize(self.size, self.elementSize),
                          self.context, Current(stack), ok)
         IN Outcome(self, stack, <<copy>>, <<>>, IF ok THEN "ok" ELSE "driver")

\* the comparison without the element sizes
shapeDiffersCountOnly(self, destSize, destElementSize) ==
    destSize # self.size

\* the comparison copyTo makes before it unwraps the destination
shapeDiffers(self, destSize, destElementSize) ==
    destSize # self.size \/ destElementSize # self.elementSize

\* CudaArray::copyTo.  destSize and destElementSize are what dest.getSize()
\* and dest.getElementSize() return, destPointer what getDevicePointer() of
\* the unwrapped destination returns, ok what cuMemcpyDtoDAsync returns.
copyToImpl(self, stack, destSize, destElementSize, destPointer, ok) ==
    IF self.pointer = 0
    THEN Outcome(self, stack, <<>>, <<>>, "uninitialized")
    ELSE IF shapeDiffers(self, destSize, destElementSize)
    THEN Outcome(self, stack, <<>>, <<>>, "shape")
    ELSE LET copy == Call("cuMemcpyDtoDAsync", destPointer, self.pointer,
                          MulSize(self.size, self.elementSize), self.context,
                          Current(stack), ok)
         IN Outcome(self, stack, <<copy>>, <<>>, IF ok THEN "ok" ELSE "driver")

\* whether copyTo gets as far as context->unwrap(dest)
copyToUnwraps(self, destSize, destElementSize) ==
    self.pointer # 0 /\ ~shapeDiffers(self, destSize, destElementSize)

---------------------------------------------------------------------------
(* The driver's allocator, and the bookkeeping of frees.                   *)

\* handles held by some object
InUse == {arr[a].pointer : a \in Arrays} \ {0}

\* what cuMemAlloc may return: failure, or a handle no object holds
\* (reusable: the handle the same call has just freed, if any)
AllocResults(reusable) ==
    {<<FALSE, 0>>} \cup {<<TRUE, h>> : h \in (Handles \ InUse) \cup (reusable \ {0})}

\* An object passes no handle but its own pointer to cuMemFree, so of the
\* handles it has freed only the one it still holds is remembered: after
\* the calls cs, object a holds an already freed handle iff it has just
\* freed the pointer it keeps, or had before and allocated nothing since.
FreedAfter(a, self, cs) ==
    LET frees == {cs[i].ptr : i \in {j \in DOMAIN cs : cs[j].fn = "cuMemFree"}}
        allocs == {cs[i].ptr : i \in {j \in DOMAIN cs : cs[j].fn = "cuMemAlloc" /\ cs[j].ok}}
    IN [freed EXCEPT ![a] = /\ self.pointer # 0
                            /\ self.pointer \notin allocs
                            /\ (freed[a] \/ self.pointer \in frees)]

\* context->getContextIsValid(); the destructor reads it only when pointer
\* is non-zero, and context is assigned by then
ContextIsValid(self) == IF self.context \in Contexts THEN valid[self.context] ELSE FALSE

\* what a read of a size or elementSize field can yield: its value, or
\* anything of its type when the field was never assigned
ReadSize(v) == IF v = IndetNum THEN 0..SizeMax ELSE {v}
ReadInt(v) == IF v = IndetNum THEN IntMin..IntMax ELSE {v}

\* whether one of uploadSubArray's int expressions overflows (only then does
\* the build's treatment of overflow matter)
Overflows(self, off, cnt) ==
    \/ ~InInt(off + cnt)
    \/ /\ self.elementSize # IndetNum
       /\ ~(InInt(off * self.elementSize) /\ InInt(cnt * self.elementSize))

---------------------------------------------------------------------------
(* Actions: one per constructor, member function and destructor, and the   *)
(* caller's own changes of the current context.                            *)

\* CudaArray::CudaArray()
CudaArrayDefault(a) ==
    /\ ~arr[a].exists
    /\ arr' = [arr EXCEPT ![a] = DefaultArray]
    /\ last' = [NoLast EXCEPT !.op = "CudaArray", !.a = a]
    /\ calls' = <<>>
    /\ freed' = [freed EXCEPT ![a] = FALSE]
    /\ UNCHANGED <<ctxStack, valid>>

\* CudaArray::CudaArray(context, size, elementSize, name) : pointer(0), then
\* initialize.  ownsMemory is unassigned until initialize writes it, and
\* nothing reads it before.  When initialize throws no object comes to exist.
CudaArrayInitOf(a, contexts, names, counts, elemSizes) ==
    \E c \in contexts, n \in counts, es \in elemSizes, nm \in names, al \in AllocResults({}) :
        \E r \in {initializeImpl(DefaultArray, ctxStack, c, n, es, nm, al[1], al[2])} :
           /\ ~arr[a].exists
           /\ arr' = [arr EXCEPT ![a] = IF r.res = "ok" THEN r.self ELSE NoArray]
           /\ ctxStack' = r.stack
           /\ calls' = r.calls
           /\ last' = [NoLast EXCEPT !.op = "CudaArrayInit", !.a = a, !.res = r.res,
                                     !.guards = r.guards, !.n = n]
           /\ freed' = [freed EXCEPT ![a] = FALSE]
           /\ UNCHANGED valid

CudaArrayInitWith(a, contexts, names) ==
    CudaArrayInitOf(a, contexts, names, Counts, ElemSizes)

CudaArrayInit(a) == CudaArrayInitWith(a, Contexts, Names)

\* CudaArray::initialize.  What cuMemAlloc returns is a choice only when it
\* is called.
InitializeWith(a, contexts, names) ==
    \E c \in contexts, n \in Counts, es \in ElemSizes, nm \in names, al \in AllocResults({}) :
        \E r \in {initializeImpl(arr[a], ctxStack, c, n, es, nm, al[1], al[2])} :
           /\ arr[a].exists
           /\ (r.calls = <<>> => al = <<FALSE, 0>>)
           /\ arr' = [arr EXCEPT ![a] = r.self]
           /\ ctxStack' = r.stack
           /\ calls' = r.calls
           /\ last' = [NoLast EXCEPT !.op = "initialize", !.a = a, !.res = r.res,
                                     !.h = arr[a].pointer, !.guards = r.guards, !.n = n]
           /\ freed' = FreedAfter(a, r.self, r.calls)
           /\ UNCHANGED valid

Initialize(a) == InitializeWith(a, Contexts, Names)

Resize(a) ==
    \E n \in Counts, okFree \in BOOLEAN, al \in AllocResults({arr[a].pointer}) :
        \E r \in {resizeImpl(arr[a], ctxStack, n, okFree, al[1], al[2])} :
           /\ arr[a].exists
           /\ (r.calls = <<>> => okFree)
           /\ (Len(r.calls) < 2 => al = <<FALSE, 0>>)
           /\ arr' = [arr EXCEPT ![a] = r.self]
           /\ ctxStack' = r.stack
           /\ calls' = r.calls
           /\ last' = [NoLast EXCEPT !.op = "resize", !.a = a, !.res = r.res,
                                     !.h = arr[a].pointer, !.guards = r.guards, !.n = n]
           /\ freed' = FreedAfter(a, r.self, r.calls)
           /\ UNCHANGED valid

Destroy(a) ==
    \E okFree \in BOOLEAN :
        \E r \in {destroyImpl(arr[a], ctxStack, ContextIsValid(arr[a]), okFree)} :
           /\ arr[a].exists
           /\ (r.calls = <<>> => okFree)
           /\ arr' = [arr EXCEPT ![a] = r.self]
           /\ ctxStack' = r.stack
           /\ calls' = r.calls
           /\ last' = [NoLast EXCEPT !.op = "destroy", !.a = a, !.res = r.res,
                                     !.h = arr[a].pointer, !.guards = r.guards]
           /\ freed' = [freed EXCEPT ![a] = FALSE]
           /\ UNCHANGED valid

UploadSubArrayWith(a, offsets, counts) ==
    \E off \in offsets, cnt \in counts, blocking \in BOOLEAN, ok \in BOOLEAN,
       ub \in UBOutcomes :
        \E r \in {uploadSubArrayImpl(arr[a], ctxStack, off, cnt, blocking, ok, ub)} :
           /\ arr[a].exists
           /\ (r.calls = <<>> => ok)
           /\ (~Overflows(arr[a], off, cnt) => ub = "wrap")
           /\ arr' = [arr EXCEPT ![a] = r.self]
           /\ ctxStack' = r.stack
           /\ calls' = r.calls
           /\ last' = [NoLast EXCEPT !.op = "uploadSubArray", !.a = a, !.res = r.res,
                                     !.h = arr[a].pointer, !.guards = r.guards,
                                     !.off = off, !.cnt = cnt, !.blocking = blocking]
           /\ UNCHANGED <<valid, freed>>

UploadSubArray(a) == UploadSubArrayWith(a, OffsetArgs, ElementArgs)

Download(a) ==
    \E blocking \in BOOLEAN, ok \in BOOLEAN :
        \E r \in {downloadImpl(arr[a], ctxStack, blocking, ok)} :
           /\ arr[a].exists
           /\ (r.calls = <<>> => ok)
           /\ arr' = [arr EXCEPT ![a] = r.self]
           /\ ctxStack' = r.stack
           /\ calls' = r.calls
           /\ last' = [NoLast EXCEPT !.op = "download", !.a = a, !.res = r.res,
                                     !.h = arr[a].pointer, !.guards = r.guards,
                                     !.blocking = blocking]
           /\ UNCHANGED <<valid, freed>>

CopyTo(a, d) ==
    \E ds \in ReadSize(arr[d].size), des \in ReadInt(arr[d].elementSize), ok \in BOOLEAN :
        \E r \in {copyToImpl(arr[a], ctxStack, ds, des, arr[d].pointer, ok)} :
           /\ arr[a].exists /\ arr[d].exists
           /\ (r.calls = <<>> => ok)
           /\ arr' = [arr EXCEPT ![a] = r.self]
           /\ ctxStack' = r.stack
           /\ calls' = r.calls
           /\ last' = [NoLast EXCEPT !.op = "copyTo", !.a = a, !.res = r.res,
                                     !.h = arr[a].pointer, !.guards = r.guards, !.d = d,
                                     !.mismatch = (ds # arr[a].size \/ des # arr[a].elementSize),
                                     !.unwrapped = copyToUnwraps(arr[a], ds, des)]
           /\ UNCHANGED <<valid, freed>>

\* the caller makes a context current (CudaContext::pushAsCurrent)
PushAsCurrent(c) ==
    /\ Len(ctxStack) < MaxStack
    /\ ctxStack' = <<c>> \o ctxStack
    /\ last' = [NoLast EXCEPT !.op = "pushAsCurrent"]
    /\ calls' = <<>>
    /\ UNCHANGED <<arr, valid, freed>>

\* the caller restores the previous one (CudaContext::popAsCurrent)
PopAsCurrent ==
    /\ ctxStack # <<>>
    /\ ctxStack' = Tail(ctxStack)
    /\ last' = [NoLast EXCEPT !.op = "popAsCurrent"]
    /\ calls' = <<>>
    /\ UNCHANGED <<arr, valid, freed>>

\* the context is torn down: getContextIsValid() is false from now on
Invalidate(c) ==
    /\ valid[c]
    /\ valid' = [valid EXCEPT ![c] = FALSE]
    /\ last' = [NoLast EXCEPT !.op = "invalidate"]
    /\ calls' = <<>>
    /\ UNCHANGED <<arr, ctxStack, freed>>

Init ==
    /\ arr = [a \in Arrays |-> NoArray]
    /\ ctxStack = <<>>
    /\ valid = [c \in Contexts |-> TRUE]
    /\ freed = [a \in Arrays |-> FALSE]
    /\ last = NoLast
    /\ calls = <<>>

\* One object through its whole life, with every member function, the
\* caller's changes of the current context and the teardown of contexts.
Next ==
    \/ CudaArrayDefault("A")
    \/ CudaArrayInit("A")
    \/ Initialize("A")
    \/ Resize("A")
    \/ Destroy("A")
    \/ UploadSubArray("A")
    \/ Download("A")
    \/ CopyTo("A", "A")
    \/ \E c \in Contexts : PushAsCurrent(c)
    \/ PopAsCurrent
    \/ \E c \in Contexts : Invalidate(c)

Spec == Init /\ [][Next]_vars

\* One object's construction, allocation, reallocation and destruction, and
\* the teardown of contexts.
NextLife ==
    \/ CudaArrayDefault("A")
    \/ CudaArrayInit("A")
    \/ Initialize("A")
    \/ Resize("A")
    \/ Destroy("A")
    \/ \E c \in Contexts : Invalidate(c)

SpecLife == Init /\ [][NextLife]_vars

\* One object, allocated with any count and element size, and uploads whose
\* offset and element count lie below, inside, at the end of and beyond the
\* array.
UploadOffsets == -1 .. MaxCount

UploadCounts == (-1 .. MaxCount + 1) \cup {IntMax}

NextUpload ==
    \/ CudaArrayInitWith("A", {"ctx1"}, {"posq"})
    \/ Destroy("A")
    \/ UploadSubArrayWith("A", UploadOffsets, UploadCounts)

SpecUpload == Init /\ [][NextUpload]_vars

\* Two objects of one context, their construction, allocation and
\* destruction, and the copies between them.
NextCopy ==
    \/ \E a \in Arrays : CudaArrayDefault(a)
    \/ \E a \in Arrays : CudaArrayInitWith(a, {"ctx1"}, {"posq"})
    \/ \E a \in Arrays : InitializeWith(a, {"ctx1"}, {"posq"})
    \/ \E a \in Arrays : Destroy(a)
    \/ \E a, d \in Arrays : CopyTo(a, d)

SpecCopy == Init /\ [][NextCopy]_vars

\* One object through its whole life, with every member function, under
\* each context the caller may have made current: constructed for one
\* context and name, initialized for either context under another name.
NextOps ==
    \/ CudaArrayDefault("A")
    \/ CudaArrayInitWith("A", {"ctx1"}, {"posq"})
    \/ InitializeWith("A", Contexts, {"force"})
    \/ Resize("A")
    \/ Destroy("A")
    \/ UploadSubArray("A")
    \/ Download("A")
    \/ CopyTo("A", "A")
    \/ \E c \in Contexts : PushAsCurrent(c)
    \/ PopAsCurrent

SpecOps == Init /\ [][NextOps]_vars

\* One object whose element count and element size go up to INT_MAX, so
\* that its size in bytes goes beyond INT_MAX, with uploads and downloads.
TransferCounts == Counts \cup {IntMax}

TransferElemSizes == ElemSizes \cup {IntMax}

TransferOffsets == {0, 1}

NextTransfer ==
    \/ CudaArrayInitOf("A", {"ctx1"}, {"posq"}, TransferCounts, TransferElemSizes)
    \/ Destroy("A")
    \/ UploadSubArrayWith("A", TransferOffsets, TransferCounts)
    \/ Download("A")

SpecTransfer == Init /\ [][NextTransfer]_vars

---------------------------------------------------------------------------
(* The claims.  In an action formula the unprimed variables are the state  *)
(* in which the function is called and last', calls' and arr' are its      *)
(* record, its driver calls and the objects when it has returned.          *)

\* C1: every driver primitive a CudaArray function invokes (allocation, free,
\* host-to-device, device-to-host and device-to-device copy) is issued while
\* the array's own context is the current one, whatever context was current
\* before the call (the caller's context is the same before and after it).
C1_DriverCallsUnderOwnContext ==
    ctxStack # <<>> => \A i \in DOMAIN calls : calls[i].cur = calls[i].own

\* C2: when resize is called on an initialized, owning array and cuMemFree
\* reports a failure, resize raises a driver error, attempts no allocation
\* and returns with the handle 0.
C2_ResizeFreeFailureClearsHandle ==
    (/\ last.op = "resize"
     /\ last.h # 0
     /\ Len(calls) >= 1
     /\ calls[1].fn = "cuMemFree"
     /\ ~calls[1].ok)
    => (/\ last.res = "driver"
        /\ Len(calls) = 1
        /\ arr[last.a].pointer = 0)

\* C3: an object never invokes cuMemFree on a handle on which it has invoked
\* cuMemFree before since that handle was allocated.
C3_NoSecondFree ==
    [][\A i \in DOMAIN calls' : calls'[i].fn = "cuMemFree" => ~freed[last'.a]]_vars

\* C4: when initialize is called on an uninitialized array and cuMemAlloc
\* reports a failure, initialize raises a driver error and retains nothing:
\* the handle is 0 and elementCount, elementSize, name, ownsMemory and context
\* are what they were before the call.
C4_InitializeFailureKeepsState ==
    [][(/\ last'.op = "initialize"
        /\ arr[last'.a].pointer = 0
        /\ Len(calls') = 1
        /\ ~calls'[1].ok)
       => (/\ last'.res = "driver"
           /\ arr'[last'.a] = arr[last'.a])]_vars

\* C5: initialize on an array whose handle is non-zero fails with the misuse
\* error, issues no driver call and activates no context, and leaves every
\* field of the array as it was, whatever its arguments.
C5_InitializeTwiceIsMisuse ==
    [][(last'.op = "initialize" /\ arr[last'.a].pointer # 0)
       => (/\ last'.res = "already_initialized"
           /\ calls' = <<>>
           /\ last'.guards = <<>>
           /\ ctxStack' = ctxStack
           /\ arr' = arr)]_vars

\* C5's case: a second initialize has been refused
C5_Witness ==
    last.op = "initialize" /\ last.h # 0 /\ last.res = "already_initialized"

\* C6: on an initialized array, uploadSubArray with offset < 0 or
\* offset + elementsToCopy > elementCount fails with the bounds error, issues
\* no driver copy and leaves the array as it was, blocking or not.
C6_UploadOutOfRangeIsBoundsError ==
    [][(/\ last'.op = "uploadSubArray"
        /\ arr[last'.a].pointer # 0
        /\ (last'.off < 0 \/ last'.off + last'.cnt > arr[last'.a].size))
       => (/\ last'.res = "bounds"
           /\ calls' = <<>>
           /\ arr' = arr)]_vars

\* C6's case: a non-blocking upload whose offset is fine and whose end lies
\* beyond the array (here beyond INT_MAX too) has been refused
C6_Witness ==
    /\ last.op = "uploadSubArray"
    /\ last.h # 0
    /\ ~last.blocking
    /\ last.off >= 0
    /\ last.off + last.cnt > IntMax
    /\ last.res = "bounds"

\* C7: the destructor invokes cuMemFree if and only if the handle is non-zero,
\* the array owns its memory and its context reports valid; it then issues
\* exactly one free, of the handle it holds, and otherwise none.
C7_DestructorFreesIffOwnedAndValid ==
    [][last'.op = "destroy"
       => LET self == arr[last'.a]
              frees == self.pointer # 0 /\ self.ownsMemory /\ valid[self.context]
          IN /\ frees => (/\ Len(calls') = 1
                          /\ calls'[1].fn = "cuMemFree"
                          /\ calls'[1].ptr = self.pointer)
             /\ ~frees => calls' = <<>>]_vars

\* C7's case: an array holding a handle whose context is no longer valid has
\* been destroyed, and no free was issued
C7_Witness ==
    last.op = "destroy" /\ last.h # 0 /\ calls = <<>>

\* C8: resize(n) on an initialized, owning array, when both driver calls
\* succeed, issues one free of the old handle and then one allocation of
\* n * elementSize bytes, and returns with a non-zero handle, elementCount n,
\* ownsMemory true, and elementSize, name and context as they were.
C8_ResizeReallocates ==
    [][(/\ last'.op = "resize"
        /\ arr[last'.a].pointer # 0
        /\ arr[last'.a].ownsMemory
        /\ \A i \in DOMAIN calls' : calls'[i].ok)
       => LET self == arr[last'.a]
              after == arr'[last'.a]
          IN /\ last'.res = "ok"
             /\ Len(calls') = 2
             /\ calls'[1].fn = "cuMemFree" /\ calls'[1].ptr = self.pointer
             /\ calls'[2].fn = "cuMemAlloc"
             /\ calls'[2].bytes = last'.n * self.elementSize
             /\ after.pointer # 0 /\ after.pointer = calls'[2].ptr
             /\ after.size = last'.n
             /\ after.ownsMemory
             /\ after.elementSize = self.elementSize
             /\ after.name = self.name
             /\ after.context = self.context]_vars

\* C8's case: a resize to another element count has succeeded
C8_Witness ==
    /\ last.op = "resize"
    /\ last.res = "ok"
    /\ last.h # 0
    /\ arr[last.a].size = last.n
    /\ Len(calls) = 2
    /\ calls[2].bytes # 0

\* C9: resize on an array that does not own its memory fails with a misuse
\* error, issues no free and no allocation, and leaves the array as it was.
C9_ResizeNonOwningIsMisuse ==
    [][(last'.op = "resize" /\ ~arr[last'.a].ownsMemory)
       => (/\ last'.res \in Misuse
           /\ calls' = <<>>
           /\ arr' = arr)]_vars

\* C9's case: resize has been refused on an array that owns no memory
C9_Witness ==
    /\ last.op = "resize"
    /\ arr[last.a].exists
    /\ ~arr[last.a].ownsMemory
    /\ last.res \in Misuse

\* C10: copyTo from an initialized array to a destination whose element count
\* or element size differs from the source's fails with the shape-mismatch
\* error before any device call and before the destination is unwrapped, and
\* changes neither array.
C10_CopyToMismatchIsShapeError ==
    [][(/\ last'.op = "copyTo"
        /\ arr[last'.a].pointer # 0
        /\ \/ last'.mismatch
           \/ /\ arr[last'.d].size # IndetNum
              /\ \/ arr[last'.d].size # arr[last'.a].size
                 \/ arr[last'.d].elementSize # arr[last'.a].elementSize)
       => (/\ last'.res = "shape"
           /\ calls' = <<>>
           /\ ~last'.unwrapped
           /\ arr' = arr)]_vars

\* C10's case: a copy between two initialized arrays of the same element
\* count and different element sizes has been refused
C10_Witness ==
    /\ last.op = "copyTo"
    /\ last.res = "shape"
    /\ arr[last.a].pointer # 0
    /\ arr[last.d].pointer # 0
    /\ arr[last.d].size = arr[last.a].size
    /\ arr[last.d].elementSize # arr[last.a].elementSize

\* C11: when an upload of the whole array (offset 0, as many elements as the
\* array holds) has succeeded within the allocation and the download that
\* follows it succeeds, the download reads back exactly the bytes the upload
\* wrote: the same device address and the same number of bytes, whether each
\* of the two is blocking or not.
C11_RoundTripReadsWhatWasWritten ==
    [][(/\ last.op = "uploadSubArray"
        /\ last.res = "ok"
        /\ last.off = 0
        /\ last.cnt = arr[last.a].size
        /\ calls[1].bytes <= MulSize(arr[last.a].size, arr[last.a].elementSize)
        /\ last'.op = "download"
        /\ last'.a = last.a
        /\ last'.res = "ok")
       => (/\ calls[1].ptr = calls'[1].src
           /\ calls[1].bytes = calls'[1].bytes)]_vars

C13_UninitializedIsMisuse ==
    [][(/\ last'.op \in {"resize", "uploadSubArray", "download", "copyTo"}
        /\ arr[last'.a].pointer = 0)
       => (/\ last'.res = "uninitialized"
           /\ last'.res \in Misuse
           /\ calls' = <<>>
           /\ last'.guards = <<>>
           /\ ctxStack' = ctxStack
           /\ arr' = arr)]_vars

\* C13's case: a download has been refused on an array that exists and holds
\* no handle
C13_Witness ==
    /\ last.op = "download"
    /\ arr[last.a].exists
    /\ arr[last.a].pointer = 0
    /\ last.res = "uninitialized"
    /\ calls = <<>>

\* the constructors, member functions and destructor of CudaArray
ArrayOps == {"CudaArray", "CudaArrayInit", "initialize", "resize", "destroy",
             "uploadSubArray", "download", "copyTo"}

\* C14: when a CudaArray function has returned or thrown, the calling
\* thread's current context, and the stack of contexts below it, are what
\* they were when the function was called.
C14_CurrentContextRestored ==
    [][last'.op \in ArrayOps => ctxStack' = ctxStack]_vars

\* C14's case: under a current context that is not the array's, a resize
\* has built its guard, freed, built the nested initialize's guard and
\* failed in the allocation, and the caller's context is current again
C14_Witness ==
    /\ last.op = "resize"
    /\ last.res = "driver"
    /\ Len(calls) = 2
    /\ Len(last.guards) = 2
    /\ ctxStack # <<>>
    /\ Head(ctxStack) # calls[2].own

\* C15: once a resize of an initialized array has failed and left the handle
\* 0, the next member function called on that object does not succeed, and
\* the handle is still 0 after it; an initialize in particular.
C15_ReleasedIsTerminal ==
    [][(/\ last.op = "resize"
        /\ last.res = "driver"
        /\ last.h # 0
        /\ arr[last.a].pointer = 0
        /\ last'.op \in {"initialize", "resize", "uploadSubArray", "download", "copyTo"}
        /\ last'.a = last.a)
       => (/\ last'.res # "ok"
           /\ arr'[last'.a].pointer = 0)]_vars

\* C16: every copy uploadSubArray issues for a non-negative element count
\* has as its device address handle + offset * elementSize and as its byte
\* count elementsToCopy * elementSize, the products taken exactly, whatever
\* element count and element size the array was initialized with.
C16_UploadProductsExact ==
    [][(/\ last'.op = "uploadSubArray"
        /\ last'.cnt >= 0
        /\ calls' # <<>>)
       => (/\ calls'[1].ptr = arr[last'.a].pointer + last'.off * arr[last'.a].elementSize
           /\ calls'[1].bytes = last'.cnt * arr[last'.a].elementSize)]_vars

\* C17: no member function called on an array whose handle is non-zero
\* (initialize, resize, uploadSubArray, download, copyTo) alters elementSize,
\* name or context, whether it succeeds or fails; so the three are the same
\* across a successful resize, and as long as the handle keeps its value.
C17_IdentityImmutable ==
    [][(/\ last'.op \in {"initialize", "resize", "uploadSubArray", "download", "copyTo"}
        /\ arr[last'.a].pointer # 0)
       => (/\ arr'[last'.a].elementSize = arr[last'.a].elementSize
           /\ arr'[last'.a].name = arr[last'.a].name
           /\ arr'[last'.a].context = arr[last'.a].context)]_vars

\* C17's case: a resize to another element count has succeeded on an array
\* whose name is not the one the constructor in this run gives
C17_Witness ==
    /\ last.op = "resize"
    /\ last.res = "ok"
    /\ last.h # 0
    /\ arr[last.a].pointer # 0
    /\ arr[last.a].name = "force"
    /\ arr[last.a].size = last.n
    /\ Len(calls) = 2
    /\ calls[2].bytes = last.n * arr[last.a].elementSize

\* C18: every host-to-device copy uploadSubArray issues lies inside the
\* array: at the driver call 0 <= offset, 0 <= elementsToCopy and
\* offset + elementsToCopy <= elementCount.
C18_UploadCopiesInsideArray ==
    [][(last'.op = "uploadSubArray" /\ calls' # <<>>)
       => (/\ 0 <= last'.off
           /\ 0 <= last'.cnt
           /\ last'.off + last'.cnt <= arr[last'.a].size)]_vars

\* C19: every device-to-device copy copyTo issues has a non-zero destination
\* address: none is issued to a destination whose handle is 0.
C19_CopyToNeverTargetsNull ==
    last.op = "copyTo"
    => \A i \in DOMAIN calls : calls[i].ptr # 0 /\ arr[last.d].pointer # 0

\* C20: while the context of the array is valid and every cuMemFree the
\* object issues succeeds (so that it holds no handle it has freed), each
\* constructor, initialize, resize and the destructor keep the account of
\* handles: a handle a successful cuMemAlloc returns is the one the object
\* holds afterwards; a handle the object held is either still held, with no
\* free of it, or was passed to cuMemFree exactly once; nothing else is
\* freed; and the destructor leaves no handle held.  Hence every handle
\* allocated for the object has been freed exactly once when it is destroyed,
\* also when a resize fails in its allocation.
C20_NoLeak ==
    [][LET self == arr[last'.a]
           after == arr'[last'.a]
           frees == {i \in DOMAIN calls' : calls'[i].fn = "cuMemFree"}
           allocs == {i \in DOMAIN calls' : calls'[i].fn = "cuMemAlloc" /\ calls'[i].ok}
       IN (/\ last'.op \in {"CudaArrayInit", "initialize", "resize", "destroy"}
           /\ ~freed[last'.a]
           /\ self.pointer # 0 => valid[self.context]
           /\ \A i \in frees : calls'[i].ok)
          => (/\ Cardinality(allocs) <= 1
              /\ \A i \in allocs : after.pointer = calls'[i].ptr
              /\ \A i \in frees : self.pointer # 0 /\ calls'[i].ptr = self.pointer
              /\ self.pointer # 0
                 => IF after.pointer = self.pointer /\ allocs = {}
                    THEN frees = {}
                    ELSE Cardinality(frees) = 1
              /\ ~freed'[last'.a]
              /\ last'.op = "destroy" => after.pointer = 0)]_vars

\* C20's case: an array holding a handle has been destroyed, with one
\* successful free of that handle
C20_Witness ==
    /\ last.op = "destroy"
    /\ last.h # 0
    /\ Len(calls) = 1
    /\ calls[1].fn = "cuMemFree"
    /\ calls[1].ptr = last.h
    /\ calls[1].ok
    /\ ~arr[last.a].exists

=============================================================================
